---- MODULE Spec2Model ----
(***************************************************************************)
(* The Ordamo V3 SDK handshake state machine and its session persistence  *)
(* layer, as a state machine.  Two revisions of the SDK that live side by  *)
(* side in the repository are modelled:                                    *)
(*   rev "A"  src/src/index.ts      restore at construction, no version /  *)
(*                                  session check                          *)
(*   rev "B"  src/unnamed/part_002  restore when the init message is       *)
(*                                  accepted, version and session check    *)
(* A third, older revision has a specification of its own (SpecC):         *)
(*   rev "C"  src/unnamed/part_003  restore at construction in every mode, *)
(*                                  legacy shapes/plateSpots naming        *)
(* Handlers run to completion (single-threaded event loop), so each        *)
(* handler is one action.  A handler that throws leaves the assignments it *)
(* made before the throw in place.                                         *)
(***************************************************************************)
EXTENDS Integers, Sequences, FiniteSets, TLC

VARIABLES
    window,            \* the global window: undefined, the top frame, or framed
    mode,              \* RUNNING_MODE, fixed at module load
    rev,               \* which revision of the SDK source is loaded
    browserOk,         \* the development-mode platform check would pass
    readyState,        \* document.readyState
    INSTANCE_CREATED,  \* the process-wide instance guard
    sessionStorage,    \* window.sessionStorage: pathname -> stored item
    pathname,          \* document.location.pathname
    now,               \* Date.now(), in milliseconds
    sdk,               \* the fields of the OrdamoSDK instance (or NoInstance)
    posted,            \* messages posted to the parent by the instance
    hist,              \* what has been delivered to / called back by the instance
    last               \* the outcome of the last operation

vars == <<window, mode, rev, browserOk, readyState, INSTANCE_CREATED, sessionStorage,
          pathname, now, sdk, posted, hist, last>>

(***************************************************************************)
(* Bounds of the model.                                                    *)
(***************************************************************************)
MaxCloses == 1         \* "close" messages posted by one instance
MaxNow == 900000       \* the clock stops here (milliseconds)
MaxCalls == 2          \* onNavigate / onInteractions invocations on one instance

(***************************************************************************)
(* Program constants.                                                      *)
(***************************************************************************)
HOSTED == 1
DEVELOPMENT == 2
UNIT_TESTS == 3
MAX_SAVED_STATE_SECONDS == 10 * 60

RunningModes == {HOSTED, DEVELOPMENT, UNIT_TESTS}

\* The global object the module finds when it is loaded: no window at all
\* (typeof window === "undefined"), a window that is its own top frame
\* (window === top), or a window inside a frame.
Windows == {"undefined", "top", "framed"}

\* Mutant: a window that is its own top frame counts as hosted.
RunningModeOf_TopIsHosted(win) ==
    IF win = "undefined" THEN UNIT_TESTS
    ELSE IF win = "top" THEN HOSTED
    ELSE DEVELOPMENT

\* The value the module gives RUNNING_MODE when it is loaded.
RunningModeOf(win) ==
    IF win = "undefined" THEN UNIT_TESTS
    ELSE IF win = "top" THEN DEVELOPMENT
    ELSE HOSTED
Revisions == {"A", "B"}

\* typeof window === "undefined" exactly in unit-test mode: sessionStorage,
\* document, parent and XMLHttpRequest are properties of the window.
HasWindow == mode # UNIT_TESTS

(***************************************************************************)
(* JavaScript values.                                                      *)
(***************************************************************************)
Undefined == "undefined"
Null == "null"
Falsy == {Undefined, Null}

\* !!v ("false" and "true" stand for the booleans).
ToBoolean(v) == v \notin Falsy \cup {"false"}
\* The values given to an optional boolean option: left out, or true.
OptionalBooleans == {Undefined, "true"}

\* An optional JSON field: <<>> is an absent key, <<v>> a key with value v.
None == <<>>
Some(v) == <<v>>

\* Number arithmetic on optional numbers: None stands for NaN.
NumMinus(a, b) == IF a = None \/ b = None THEN None ELSE Some(a[1] - b[1])
NumLess(a, b) == a # None /\ b # None /\ a[1] < b[1]
NumGreater(a, b) == a # None /\ b # None /\ a[1] > b[1]
\* ToNumber of a property read: undefined converts to NaN.
ToNumber(field) == field

(***************************************************************************)
(* Values the environment can supply.                                      *)
(***************************************************************************)
Elapsed == {300000, 600000, 900000}
Paths == {"/a", "/b"}
Snapshots == {"s1"}

\* Fetched contents: "dBad" does not match the content schema (nor does the
\* message content "cBad").
FetchedContents == {"d1", "dBad"}

InitMsg(c, l, v, s) ==
    [eventType |-> "init", content |-> c, layout |-> l, table |-> "1",
     version |-> v, sessionId |-> s,
     requiredWidth |-> Undefined, requiredHeight |-> Undefined,
     shapes |-> Undefined, plateSpots |-> Undefined]

\* The init messages a host sends.
InitMessages ==
    { InitMsg("c1", "L1", "v1", "1"),
      InitMsg("cBad", "L2", "v2", "1"),
      InitMsg(Null, "L3", "v1", "2") }

\* this._initMessage before any init message was accepted (undefined).
NoInit == [eventType |-> "none", content |-> Undefined, layout |-> Undefined,
           table |-> Undefined, version |-> Undefined, sessionId |-> Undefined,
           requiredWidth |-> Undefined, requiredHeight |-> Undefined,
           shapes |-> Undefined, plateSpots |-> Undefined]

OtherMsg(t) == [NoInit EXCEPT !.eventType = t]
OtherMessages == { OtherMsg("navigate") }
\* The two kinds of event message a host sends.
EventMessages == { OtherMsg("navigate"), OtherMsg("interactions") }
\* A message of a type the SDK does not know.
UnknownMessages == { OtherMsg("unknown") }

\* The init messages of rev C carry content and layout only; a legacy host
\* sends the plate-spot list at the top of the message, named shapes (or
\* plateSpots), and no layout object.
InitMsgC(c, l, sh, ps) ==
    [InitMsg(c, l, Undefined, Undefined)
        EXCEPT !.table = Undefined, !.shapes = sh, !.plateSpots = ps]

InitMessagesC ==
    { InitMsgC("c1", "L1", Undefined, Undefined),
      InitMsgC("c1", "L1s", Undefined, Undefined),
      InitMsgC("c1", Undefined, "X", Undefined),
      InitMsgC("c1", Undefined, Undefined, "X"),
      InitMsgC("c1", Undefined, "X", "Y") }

\* layout.plateSpots of a layout object; reading a property of the layout
\* undefined is a TypeError.
LayoutPlateSpots(layout) ==
    IF layout = Undefined THEN "TypeError"
    ELSE IF layout = "L1s" THEN Undefined
    ELSE "P-" \o layout

\* layout.shapes of a layout object: layout "L1s" is layout "L1" with its list
\* of plate spots under the legacy name.
LayoutShapes(layout) == IF layout = "L1s" THEN "P-L1" ELSE Undefined

(***************************************************************************)
(* Session storage items.  An item is the string JSON.stringify wrote, or  *)
(* what something else left in the slot.                                   *)
(***************************************************************************)
Item(k, ts, st, av, sid) ==
    [kind |-> k, timestamp |-> ts, state |-> st, appVersion |-> av, sessionId |-> sid]

NoItem == Item("none", None, None, None, None)        \* getItem returns null
EmptyText == Item("empty", None, None, None, None)    \* the empty string
Garbage == Item("garbage", None, None, None, None)    \* not JSON
JsonNull == Item("jsonnull", None, None, None, None)  \* the text null
JsonNumber == Item("jsonprim", None, None, None, None) \* the text 5

\* JSON.stringify of an object: a key whose value is undefined is left out.
JsonField(v) == IF v = Undefined THEN None ELSE Some(v)
JSONstringify(o) ==
    Item("object", Some(o.timestamp), JsonField(o.state),
         IF "appVersion" \in DOMAIN o THEN JsonField(o.appVersion) ELSE None,
         IF "sessionId" \in DOMAIN o THEN JsonField(o.sessionId) ELSE None)

\* JSON.parse: "throws" on text that is not JSON.
JSONparseThrows(item) == item.kind \in {"garbage", "empty"}
\* if (storedForm): null and the empty string are falsy.
ItemFalsy(item) == item.kind \in {"none", "empty"}
\* Reading property f of the parsed value: a TypeError on null, undefined on a
\* primitive or on an absent key.
ReadThrows(item) == item.kind = "jsonnull"
ReadField(item, f) ==
    IF item.kind = "object" /\ item[f] # None THEN item[f][1] ELSE Undefined
ReadNumber(item, f) ==
    IF item.kind = "object" THEN item[f] ELSE None

(***************************************************************************)
(* The instance and the world a handler runs in.                           *)
(***************************************************************************)
Options(schema, save, fs) ==
    [contentSchema |-> schema, saveStateCallback |-> save, fullscreen |-> fs,
     onNavigate |-> Undefined, onInteractions |-> Undefined]

\* The functions an app may register as onNavigate / onInteractions.
Callbacks == {"f", "g"}

NewInstance(options) ==
    [alive |-> TRUE,
     initMessage |-> NoInit,       \* _initMessage
     content |-> <<>>,             \* _content: <<>> is undefined
     sentReadyEvent |-> FALSE,     \* _sentReadyEvent = false
     savedState |-> Null,          \* _savedState = null
     options |-> options,
     listener |-> FALSE,           \* the "message" listener is registered
     deferred |-> FALSE,           \* a readystatechange listener has yet to run _initialise
     xhr |-> "none",               \* the default-content request
     timers |-> 0]                 \* armed ready watchdogs

NoInstance == [NewInstance(Options(FALSE, FALSE, Undefined)) EXCEPT !.alive = FALSE]

\* What the last save wrote, and whether the instance that saved is the latest
\* one constructed (hops 0) or the one before it (hops 1); an older save is
\* forgotten.
NoSave == [S |-> Undefined, at |-> 0, version |-> Undefined, sessionId |-> Undefined,
           hops |-> 0]

\* History: the first init message handed to the instance's acceptance path,
\* the init callbacks and fetches so far, the last save.
NoHist == [firstInit |-> NoInit, initCallbacks |-> 0, fetches |-> 0, saved |-> NoSave,
           listenerAtLoad |-> FALSE, called |-> <<>>, restores |-> 0,
           restoreRuns |-> 0, atCallback |-> <<>>]

NextInstance(h) ==
    [NoHist EXCEPT !.saved = IF h.saved # NoSave /\ h.saved.hops = 0
                             THEN [h.saved EXCEPT !.hops = 1]
                             ELSE NoSave,
                   !.restores = h.restores]

\* The state a handler reads and writes, with the exception it ends in
\* ("none": it returns), what it logged and what it returns.
World ==
    [sdk |-> sdk, storage |-> sessionStorage, posted |-> posted,
     created |-> INSTANCE_CREATED, hist |-> hist,
     threw |-> "none", logged |-> {}, ret |-> <<>>]

Throw(w, e) == [w EXCEPT !.threw = e]
Log(w, tag) == [w EXCEPT !.logged = @ \cup {tag}]
Return(w, v) == [w EXCEPT !.ret = <<v>>]

(***************************************************************************)
(* Session persistence layer.                                              *)
(***************************************************************************)
\* _getSavedStateKey: the key is the prefix plus document.location.pathname,
\* so the slot is the one of the current path.
getSavedStateKey == pathname

\* History: _restoreState was called on the instance.
RestoreRun(w) == [w EXCEPT !.hist.restoreRuns = @ + 1]

\* History: a restore accepted the stored record.
Restored(w) == [w EXCEPT !.hist.restores = @ + 1]

\* Mutant: clearing wipes the whole session storage.
clearState_All(w) == [w EXCEPT !.storage = [p \in Paths |-> NoItem]]

\* _clearState
clearState(w) == [w EXCEPT !.storage[getSavedStateKey] = NoItem]

\* The age test of rev A: Date.now() - save.timestamp < MAX * 1000.
FreshA(item) ==
    NumLess(NumMinus(Some(now), ToNumber(ReadNumber(item, "timestamp"))),
            Some(MAX_SAVED_STATE_SECONDS * 1000))

\* Mutant: the ceiling is compared in seconds.
StaleB_Seconds(item) ==
    NumGreater(NumMinus(Some(now), ToNumber(ReadNumber(item, "timestamp"))),
               Some(MAX_SAVED_STATE_SECONDS))

\* The staleness test of rev B: Date.now() - save.timestamp > MAX * 1000.
StaleB(item) ==
    NumGreater(NumMinus(Some(now), ToNumber(ReadNumber(item, "timestamp"))),
               Some(MAX_SAVED_STATE_SECONDS * 1000))

\* Mutant: a record that is accepted is removed from the storage.
restoreStateA_Consume(w0) ==
    LET w == RestoreRun(w0) IN
    IF ~HasWindow THEN Throw(w, "ReferenceError")
    ELSE LET storedForm == w.storage[getSavedStateKey] IN
         IF ItemFalsy(storedForm) THEN w
         ELSE IF JSONparseThrows(storedForm) \/ ReadThrows(storedForm)
              THEN clearState(Log(w, "Error parsing save data"))
         ELSE IF FreshA(storedForm)
              THEN clearState(Restored([w EXCEPT !.sdk.savedState =
                                                    ReadField(storedForm, "state")]))
         ELSE clearState(Log(w, "Ignoring saved state older than"))

\* _restoreState, rev A.
restoreStateA(w0) ==
    LET w == RestoreRun(w0) IN
    IF ~HasWindow THEN Throw(w, "ReferenceError")
    ELSE LET storedForm == w.storage[getSavedStateKey] IN
         IF ItemFalsy(storedForm) THEN w
         ELSE IF JSONparseThrows(storedForm) \/ ReadThrows(storedForm)
              THEN clearState(Log(w, "Error parsing save data"))
         ELSE IF FreshA(storedForm)
              THEN Restored([w EXCEPT !.sdk.savedState = ReadField(storedForm, "state")])
         ELSE clearState(Log(w, "Ignoring saved state older than"))

\* Mutant: the app version of the record is not compared.
restoreStateB_NoVersionCheck(w0) ==
    LET w == RestoreRun(w0) IN
    IF ~HasWindow THEN Throw(w, "ReferenceError")
    ELSE LET storedForm == w.storage[getSavedStateKey] IN
         IF ItemFalsy(storedForm) THEN w
         ELSE IF JSONparseThrows(storedForm) \/ ReadThrows(storedForm)
              THEN clearState(Log(w, "Error parsing save data"))
         ELSE IF ReadField(storedForm, "sessionId") # w.sdk.initMessage.sessionId
              THEN clearState(Log(w, "Ignoring saved state, session has changed"))
         ELSE IF StaleB(storedForm)
              THEN clearState(Log(w, "Ignoring saved state older than"))
         ELSE Restored([w EXCEPT !.sdk.savedState = ReadField(storedForm, "state")])

\* Mutant: the session id of the record is not compared.
restoreStateB_NoSessionCheck(w0) ==
    LET w == RestoreRun(w0) IN
    IF ~HasWindow THEN Throw(w, "ReferenceError")
    ELSE LET storedForm == w.storage[getSavedStateKey] IN
         IF ItemFalsy(storedForm) THEN w
         ELSE IF JSONparseThrows(storedForm) \/ ReadThrows(storedForm)
              THEN clearState(Log(w, "Error parsing save data"))
         ELSE IF ReadField(storedForm, "appVersion") # w.sdk.initMessage.version
              THEN clearState(Log(w, "Ignoring saved state, app version has changed"))
         ELSE IF StaleB(storedForm)
              THEN clearState(Log(w, "Ignoring saved state older than"))
         ELSE Restored([w EXCEPT !.sdk.savedState = ReadField(storedForm, "state")])

\* _restoreState, rev B.
restoreStateB(w0) ==
    LET w == RestoreRun(w0) IN
    IF ~HasWindow THEN Throw(w, "ReferenceError")
    ELSE LET storedForm == w.storage[getSavedStateKey] IN
         IF ItemFalsy(storedForm) THEN w
         ELSE IF JSONparseThrows(storedForm) \/ ReadThrows(storedForm)
              THEN clearState(Log(w, "Error parsing save data"))
         ELSE IF ReadField(storedForm, "appVersion") # w.sdk.initMessage.version
              THEN clearState(Log(w, "Ignoring saved state, app version has changed"))
         ELSE IF ReadField(storedForm, "sessionId") # w.sdk.initMessage.sessionId
              THEN clearState(Log(w, "Ignoring saved state, session has changed"))
         ELSE IF StaleB(storedForm)
              THEN clearState(Log(w, "Ignoring saved state older than"))
         ELSE Restored([w EXCEPT !.sdk.savedState = ReadField(storedForm, "state")])

\* _saveState, rev A.  S is what the save-callback returns.
saveStateA(w, S) ==
    IF ~w.sdk.options.saveStateCallback THEN w
    ELSE IF ~HasWindow THEN Throw(w, "ReferenceError")
    ELSE LET storedForm == [timestamp |-> now, state |-> S] IN
         [w EXCEPT !.storage[getSavedStateKey] = JSONstringify(storedForm)]

\* _saveState, rev B: the record also carries this._initMessage.version and
\* .sessionId; reading them off an undefined _initMessage is a TypeError.
saveStateB(w, S) ==
    IF ~w.sdk.options.saveStateCallback THEN w
    ELSE IF w.sdk.initMessage = NoInit THEN Throw(w, "TypeError")
    ELSE IF ~HasWindow THEN Throw(w, "ReferenceError")
    ELSE LET storedForm == [timestamp |-> now, state |-> S,
                            appVersion |-> w.sdk.initMessage.version,
                            sessionId |-> w.sdk.initMessage.sessionId] IN
         [w EXCEPT !.storage[getSavedStateKey] = JSONstringify(storedForm)]

\* History: what a save that went through wrote.
Saved(w, S) ==
    [w EXCEPT !.hist.restores = 0,
              !.hist.saved = [S |-> S, at |-> now,
                              version |-> w.sdk.initMessage.version,
                              sessionId |-> w.sdk.initMessage.sessionId,
                              hops |-> 0]]

saveState(w, S) ==
    LET w1 == IF rev = "B" THEN saveStateB(w, S) ELSE saveStateA(w, S) IN
    IF w1.threw = "none" /\ w.sdk.options.saveStateCallback THEN Saved(w1, S) ELSE w1

(***************************************************************************)
(* Handshake.                                                              *)
(***************************************************************************)
\* _sendParentMessage: parent.postMessage(message, "*")
\* History: whether the "message" listener was registered when "load" went out.
sendParentMessage(w, message) ==
    [w EXCEPT !.posted = Append(@, message),
              !.hist.listenerAtLoad = IF message.eventType = "load"
                                      THEN w.sdk.listener ELSE @]

\* Mutant: the error is thrown in every mode.
logError_AlwaysThrows(w, message) == Throw(w, message)

\* logError: console.error when hosted, an exception otherwise.
logError(w, message) ==
    IF mode = HOSTED THEN Log(w, message) ELSE Throw(w, message)

\* validateContent throws when the content does not match the schema.
validateContentThrows(content) == content \in {"cBad", "dBad"}

\* The watchdog setTimeout at the end of _finishInitialisation.
armWatchdog(w) == [w EXCEPT !.sdk.timers = @ + 1]

\* What getSavedState() returns ("throws" when it throws).
getSavedStateValue(w) ==
    IF w.sdk.initMessage = NoInit THEN "throws" ELSE w.sdk.savedState

\* Mutant: the init callback is not called.
initCallback_NotCalled(w) == w

\* initCallback().  History: how often _restoreState had been called on the
\* instance, and what getSavedState() returns, as the callback starts.
initCallback(w) ==
    [w EXCEPT !.hist.initCallbacks = @ + 1,
              !.hist.atCallback = Append(@, [restoreRuns |-> w.hist.restoreRuns,
                                             savedState |-> getSavedStateValue(w)])]

\* _finishInitialisation, rev A: the schema is cloned, the content validated
\* against it, the values copied in, the init callback called, the watchdog armed.
finishInitialisationA(w) ==
    LET c == w.sdk.initMessage.content IN
    IF validateContentThrows(c)
    THEN Throw([w EXCEPT !.sdk.content = <<"schema">>], "content does not match the schema")
    ELSE armWatchdog(initCallback([w EXCEPT !.sdk.content = <<"schema", c>>]))

\* _finishInitialisation, rev B: no validation, and the schema is optional.
finishInitialisationB(w) ==
    LET c == w.sdk.initMessage.content
        w1 == IF w.sdk.options.contentSchema
              THEN [w EXCEPT !.sdk.content = <<"schema", c>>]
              ELSE w
    IN armWatchdog(initCallback(w1))

finishInitialisation(w) ==
    IF rev = "A" THEN finishInitialisationA(w) ELSE finishInitialisationB(w)

\* _loadDefaultContentFile: the request is sent; its completion is XhrComplete.
loadDefaultContentFile(w) ==
    IF ~HasWindow THEN Throw(w, "ReferenceError")
    ELSE [w EXCEPT !.sdk.xhr = "pending", !.hist.fetches = @ + 1]

\* History: message is handed to the acceptance path.
Delivered(w, message) ==
    [w EXCEPT !.hist.firstInit = IF @ = NoInit THEN message ELSE @]

\* Mutant: no test for an init message already stored.
receiveInitMessageA_NoDuplicateTest(w0, message) ==
    LET w == Delivered(w0, message)
        w1 == [w EXCEPT !.sdk.initMessage = message]
    IN IF message.content \notin Falsy
       THEN finishInitialisationA(w1)
       ELSE loadDefaultContentFile(w1)

\* _receiveInitMessage, rev A.
receiveInitMessageA(w0, message) ==
    LET w == Delivered(w0, message) IN
    IF w.sdk.initMessage # NoInit
    THEN logError(w, "Duplicate init message received, ignoring")
    ELSE LET w1 == [w EXCEPT !.sdk.initMessage = message] IN
         IF message.content \notin Falsy
         THEN finishInitialisationA(w1)
         ELSE loadDefaultContentFile(w1)

\* Mutant: the restore runs after the initialisation has finished.
receiveInitMessageB_RestoreLast(w0, message) ==
    LET w == Delivered(w0, message) IN
    IF w.sdk.initMessage # NoInit
    THEN logError(w, "Duplicate init message received, ignoring")
    ELSE LET w1 == [w EXCEPT !.sdk.initMessage = message] IN
         IF message.content \notin Falsy \/ ~w.sdk.options.contentSchema
         THEN restoreStateB(finishInitialisationB(w1))
         ELSE loadDefaultContentFile(restoreStateB(w1))

\* _receiveInitMessage, rev B: restore runs here, and an instance without a
\* content schema does not wait for content.
receiveInitMessageB(w0, message) ==
    LET w == Delivered(w0, message) IN
    IF w.sdk.initMessage # NoInit
    THEN logError(w, "Duplicate init message received, ignoring")
    ELSE LET w1 == restoreStateB([w EXCEPT !.sdk.initMessage = message]) IN
         IF w1.threw # "none" THEN w1
         ELSE IF message.content \notin Falsy \/ ~w.sdk.options.contentSchema
         THEN finishInitialisationB(w1)
         ELSE loadDefaultContentFile(w1)

\* _receiveInitMessage, rev C: the message is stored and the init callback
\* called at once.
receiveInitMessageC(w0, message) ==
    LET w == Delivered(w0, message) IN
    IF w.sdk.initMessage # NoInit
    THEN logError(w, "Duplicate init message received, ignoring")
    ELSE initCallback([w EXCEPT !.sdk.initMessage = message])

receiveInitMessage(w, message) ==
    IF rev = "A" THEN receiveInitMessageA(w, message)
    ELSE IF rev = "B" THEN receiveInitMessageB(w, message)
    ELSE receiveInitMessageC(w, message)

\* The legacy naming step of rev C's _handleParentMessage: shapes is copied to
\* plateSpots, at the top of the message, when plateSpots is missing.
duckMessage(message) ==
    IF message.shapes \notin Falsy /\ message.plateSpots \in Falsy
    THEN [message EXCEPT !.plateSpots = message.shapes]
    ELSE message

\* this._options.onNavigate(message) / onInteractions(message): callback is
\* called with message.  History: the calls, in order.
CallBack(w, callback, message) ==
    [w EXCEPT !.hist.called =
        Append(@, [callback |-> callback, eventType |-> message.eventType])]

\* Mutant: the handler accepts every init message.
handleParentMessage_Overwrite(w, message) ==
    IF message.eventType = "init"
    THEN receiveInitMessage([w EXCEPT !.sdk.initMessage = NoInit], message)
    ELSE w

\* Mutant: a later init message that carries content replaces the content of
\* the stored one.
handleParentMessage_LaterContent(w, message) ==
    IF message.eventType = "init"
    THEN IF w.sdk.initMessage # NoInit
         THEN IF message.content \notin Falsy
              THEN [w EXCEPT !.sdk.initMessage.content = message.content]
              ELSE Log(Delivered(w, message), "Second init message sent, ignoring")
         ELSE receiveInitMessage(w, IF rev = "C" THEN duckMessage(message)
                                       ELSE message)
    ELSE IF /\ message.eventType = "interactions" /\ rev # "C"
            /\ w.sdk.options.onInteractions \notin Falsy
    THEN CallBack(w, w.sdk.options.onInteractions, message)
    ELSE IF message.eventType = "navigate" /\ w.sdk.options.onNavigate \notin Falsy
    THEN CallBack(w, w.sdk.options.onNavigate, message)
    ELSE w

\* Mutant: the first message of any type is taken for the init message.
handleParentMessage_FirstIsInit(w, message) ==
    IF message.eventType = "init" \/ w.sdk.initMessage = NoInit
    THEN IF w.sdk.initMessage # NoInit
         THEN Log(Delivered(w, message), "Second init message sent, ignoring")
         ELSE receiveInitMessage(w, IF rev = "C" THEN duckMessage(message)
                                       ELSE message)
    ELSE IF /\ message.eventType = "interactions" /\ rev # "C"
            /\ w.sdk.options.onInteractions \notin Falsy
    THEN CallBack(w, w.sdk.options.onInteractions, message)
    ELSE IF message.eventType = "navigate" /\ w.sdk.options.onNavigate \notin Falsy
    THEN CallBack(w, w.sdk.options.onNavigate, message)
    ELSE w

\* Mutant: event messages are handed on only once the init message is in.
handleParentMessage_EventsAfterInit(w, message) ==
    IF message.eventType = "init"
    THEN IF w.sdk.initMessage # NoInit
         THEN Log(Delivered(w, message), "Second init message sent, ignoring")
         ELSE receiveInitMessage(w, IF rev = "C" THEN duckMessage(message)
                                       ELSE message)
    ELSE IF w.sdk.initMessage = NoInit THEN w
    ELSE IF /\ message.eventType = "interactions" /\ rev # "C"
            /\ w.sdk.options.onInteractions \notin Falsy
    THEN CallBack(w, w.sdk.options.onInteractions, message)
    ELSE IF message.eventType = "navigate" /\ w.sdk.options.onNavigate \notin Falsy
    THEN CallBack(w, w.sdk.options.onNavigate, message)
    ELSE w

\* _handleParentMessage (rev C has no onInteractions).  In rev B the two
\* callbacks are public properties of the instance, set from the options.
handleParentMessage(w, message) ==
    IF message.eventType = "init"
    THEN IF w.sdk.initMessage # NoInit
         THEN Log(Delivered(w, message), "Second init message sent, ignoring")
         ELSE receiveInitMessage(w, IF rev = "C" THEN duckMessage(message)
                                       ELSE message)
    ELSE IF /\ message.eventType = "interactions" /\ rev # "C"
            /\ w.sdk.options.onInteractions \notin Falsy
    THEN CallBack(w, w.sdk.options.onInteractions, message)
    ELSE IF message.eventType = "navigate" /\ w.sdk.options.onNavigate \notin Falsy
    THEN CallBack(w, w.sdk.options.onNavigate, message)
    ELSE w

Msg(t, fs) == [eventType |-> t, fullscreen |-> fs]

\* _initialiseHostedMode, rev A (the listener is registered by the constructor).
initialiseHostedModeA(w) ==
    sendParentMessage(w, Msg("load", ToBoolean(w.sdk.options.fullscreen)))

\* Mutant: "load" is posted before the listener is registered.
initialiseHostedModeB_PostFirst(w) ==
    [sendParentMessage(w, Msg("load", ToBoolean(w.sdk.options.fullscreen)))
        EXCEPT !.sdk.listener = TRUE]

\* _initialiseHostedMode, rev B: registers the listener, then posts "load".
initialiseHostedModeB(w) ==
    sendParentMessage([w EXCEPT !.sdk.listener = TRUE],
                      Msg("load", ToBoolean(w.sdk.options.fullscreen)))

\* The synthesized init message of development mode; its version is random.
MockVersions == {"0.1-MOCKVERSION-SDK-DEVMODE", "0.2-MOCKVERSION-SDK-DEVMODE"}
MockInitMessage(version) ==
    [InitMsg(Null, "Lmock", version, "1")
        EXCEPT !.requiredWidth = "800", !.requiredHeight = "600"]

\* _initialiseDevelopmentMode, rev A.
initialiseDevelopmentModeA(w, version) ==
    receiveInitMessageA(w, MockInitMessage(version))

\* Mutant: no init message is synthesized.
initialiseDevelopmentModeB_NoInit(w, version) ==
    IF ~browserOk THEN Throw(Log(w, "alert"), "Bad browser")
    ELSE w

\* _initialiseDevelopmentMode, rev B: the platform check lives here.
initialiseDevelopmentModeB(w, version) ==
    IF ~browserOk THEN Throw(Log(w, "alert"), "Bad browser")
    ELSE receiveInitMessageB(w, MockInitMessage(version))

\* _initialise, rev B.
initialise(w, version, rs) ==
    IF mode = UNIT_TESTS THEN w
    ELSE IF rs # "complete" THEN [w EXCEPT !.sdk.deferred = TRUE]
    ELSE IF mode = DEVELOPMENT THEN initialiseDevelopmentModeB(w, version)
    ELSE initialiseHostedModeB(w)

\* Mutant: the platform check is skipped.
constructorA_NoPlatformCheck(w, options, version) ==
    IF w.created /\ mode # UNIT_TESTS
    THEN Throw(w, "Only one instance of OrdamoSDK may be created")
    ELSE LET w1 == [w EXCEPT !.created = TRUE, !.sdk = NewInstance(options)]
             w2 == IF mode = DEVELOPMENT THEN initialiseDevelopmentModeA(w1, version)
                   ELSE IF mode = HOSTED
                   THEN initialiseHostedModeA([w1 EXCEPT !.sdk.listener = TRUE])
                   ELSE w1
         IN IF w2.threw # "none" \/ mode = UNIT_TESTS THEN w2
            ELSE restoreStateA(w2)

\* constructor, rev A.
constructorA(w, options, version) ==
    IF mode = DEVELOPMENT /\ ~browserOk THEN Throw(Log(w, "alert"), "Bad browser")
    ELSE IF w.created /\ mode # UNIT_TESTS
    THEN Throw(w, "Only one instance of OrdamoSDK may be created")
    ELSE LET w1 == [w EXCEPT !.created = TRUE, !.sdk = NewInstance(options)]
             w2 == IF mode = DEVELOPMENT THEN initialiseDevelopmentModeA(w1, version)
                   ELSE IF mode = HOSTED
                   THEN initialiseHostedModeA([w1 EXCEPT !.sdk.listener = TRUE])
                   ELSE w1
         IN IF w2.threw # "none" \/ mode = UNIT_TESTS THEN w2
            ELSE restoreStateA(w2)

\* _receiveDevelopmentContent, rev C.
receiveDevelopmentContent(w, content) ==
    receiveInitMessageC(w, InitMsgC(content, "Lmock", Undefined, Undefined))

\* _initialiseDevelopmentData, rev C: the default content is requested; the
\* init message is synthesized when it arrives.
initialiseDevelopmentData(w) ==
    [w EXCEPT !.sdk.xhr = "pending", !.hist.fetches = @ + 1]

\* constructor, rev C: _restoreState (the text of rev A's) runs in every
\* mode.  The "load" message carries no fullscreen flag.  Instances are
\* configured without the contentOverride option.
constructorC(w, options) ==
    IF mode = DEVELOPMENT /\ ~browserOk THEN Throw(Log(w, "alert"), "Bad browser")
    ELSE IF w.created /\ mode # UNIT_TESTS
    THEN Throw(w, "Only one instance of OrdamoSDK may be created")
    ELSE LET w1 == [w EXCEPT !.created = TRUE, !.sdk = NewInstance(options)]
             w2 == IF mode = DEVELOPMENT THEN initialiseDevelopmentData(w1)
                   ELSE IF mode = HOSTED
                   THEN sendParentMessage([w1 EXCEPT !.sdk.listener = TRUE],
                                          Msg("load", FALSE))
                   ELSE w1
         IN restoreStateA(w2)

\* Mutant: the constructor does not record that an instance exists.
constructorB_NoGuardSet(w, options, version) ==
    IF w.created /\ mode # UNIT_TESTS
    THEN Throw(w, "Only one instance of OrdamoSDK may be created")
    ELSE initialise([w EXCEPT !.sdk = NewInstance(options)], version, readyState)

\* constructor, rev B.
constructorB(w, options, version) ==
    IF w.created /\ mode # UNIT_TESTS
    THEN Throw(w, "Only one instance of OrdamoSDK may be created")
    ELSE initialise([w EXCEPT !.created = TRUE, !.sdk = NewInstance(options)],
                    version, readyState)

\* Mutant: the guard lets every call through.
requireInitMessage_NoCheck(w) == w

\* _requireInitMessage
requireInitMessage(w) ==
    IF w.sdk.initMessage = NoInit THEN Throw(w, "The SDK has not initialised yet.")
    ELSE w

\* Mutant: "ready" is posted on every legal call.
notifyAppIsReady_NoFlagCheck(w) ==
    IF w.sdk.initMessage = NoInit THEN Throw(w, "Illegal call to notifyAppIsReady()")
    ELSE LET w1 == [w EXCEPT !.sdk.sentReadyEvent = TRUE] IN
         IF mode = HOSTED THEN sendParentMessage(w1, Msg("ready", FALSE)) ELSE w1

\* Mutant: the flag is set before the init message is checked.
notifyAppIsReady_FlagFirst(w) ==
    LET w1 == [w EXCEPT !.sdk.sentReadyEvent = TRUE] IN
    IF w.sdk.initMessage = NoInit THEN Throw(w1, "Illegal call to notifyAppIsReady()")
    ELSE IF ~w.sdk.sentReadyEvent
    THEN IF mode = HOSTED THEN sendParentMessage(w1, Msg("ready", FALSE)) ELSE w1
    ELSE w

\* notifyAppIsReady
notifyAppIsReady(w) ==
    IF w.sdk.initMessage = NoInit THEN Throw(w, "Illegal call to notifyAppIsReady()")
    ELSE IF ~w.sdk.sentReadyEvent
    THEN LET w1 == [w EXCEPT !.sdk.sentReadyEvent = TRUE] IN
         IF mode = HOSTED THEN sendParentMessage(w1, Msg("ready", FALSE)) ELSE w1
    ELSE w

\* getContent
getContent(w) ==
    LET w1 == requireInitMessage(w) IN
    IF w1.threw # "none" THEN w1
    ELSE IF rev = "C" THEN Return(w1, <<w1.sdk.initMessage.content>>)
    ELSE Return(w1, w1.sdk.content)

\* getLayout
getLayout(w) ==
    LET w1 == requireInitMessage(w) IN
    IF w1.threw # "none" THEN w1 ELSE Return(w1, w1.sdk.initMessage.layout)

\* getSavedState
getSavedState(w) ==
    LET w1 == requireInitMessage(w) IN
    IF w1.threw # "none" THEN w1 ELSE Return(w1, w1.sdk.savedState)

\* getTableLabel (rev B)
getTableLabel(w) ==
    LET w1 == requireInitMessage(w) IN
    IF w1.threw # "none" THEN w1 ELSE Return(w1, w1.sdk.initMessage.table)

\* getRequiredWidth (rev B)
getRequiredWidth(w) ==
    LET w1 == requireInitMessage(w) IN
    IF w1.threw # "none" THEN w1 ELSE Return(w1, w1.sdk.initMessage.requiredWidth)

\* getRequiredHeight (rev B)
getRequiredHeight(w) ==
    LET w1 == requireInitMessage(w) IN
    IF w1.threw # "none" THEN w1 ELSE Return(w1, w1.sdk.initMessage.requiredHeight)

\* Mutant: "close" is posted in every running mode.
requestAppClose_PostsInEveryMode(w, S) ==
    LET w0 == IF rev = "C" THEN requireInitMessage(w) ELSE w
        w1 == sendParentMessage(w0, Msg("close", FALSE))
    IN IF w0.threw # "none" THEN w0
       ELSE IF w1.sdk.options.saveStateCallback THEN saveState(w1, S) ELSE w1

\* Mutant: the state is saved only once the init message is in.
requestAppClose_SaveAfterInit(w, S) ==
    LET w0 == IF rev = "C" THEN requireInitMessage(w) ELSE w
        w1 == IF mode = HOSTED THEN sendParentMessage(w0, Msg("close", FALSE))
              ELSE w0
    IN IF w0.threw # "none" THEN w0
       ELSE IF w1.sdk.options.saveStateCallback /\ w1.sdk.initMessage # NoInit
       THEN saveState(w1, S) ELSE w1

\* requestAppClose
requestAppClose(w, S) ==
    LET w0 == IF rev = "C" THEN requireInitMessage(w) ELSE w
        w1 == IF mode = HOSTED THEN sendParentMessage(w0, Msg("close", FALSE))
              ELSE w0
    IN IF w0.threw # "none" THEN w0
       ELSE IF w1.sdk.options.saveStateCallback THEN saveState(w1, S) ELSE w1

\* xhr.onreadystatechange with readyState 4, rev C (development mode only):
\* the init message is synthesized around the content, then the watchdog armed.
xhrCompleteC(w, status, body) ==
    LET w1 == [w EXCEPT !.sdk.xhr = "done"] IN
    IF status # 200 THEN Log(w1, "Failed to load")
    ELSE IF body = "notjson" THEN Log(w1, "not a valid JSON file")
    ELSE IF body \in Falsy THEN w1
    ELSE LET w2 == receiveDevelopmentContent(w1, body) IN
         IF w2.threw # "none" THEN w2 ELSE armWatchdog(w2)

\* Mutant: a failed request is sent again.
xhrComplete_Retry(w, status, body) ==
    LET w1 == [w EXCEPT !.sdk.xhr = "done"] IN
    IF rev = "C" THEN xhrCompleteC(w, status, body)
    ELSE IF status # 200 THEN loadDefaultContentFile(Log(w1, "Failed to load"))
    ELSE IF body = "notjson" THEN loadDefaultContentFile(Log(w1, "not a valid JSON file"))
    ELSE IF body \in Falsy THEN w1
    ELSE finishInitialisation([w1 EXCEPT !.sdk.initMessage.content = body])

\* xhr.onreadystatechange with readyState 4.  body is what the server sent.
xhrComplete(w, status, body) ==
    LET w1 == [w EXCEPT !.sdk.xhr = "done"] IN
    IF rev = "C" THEN xhrCompleteC(w, status, body)
    ELSE IF status # 200 THEN Log(w1, "Failed to load")
    ELSE IF body = "notjson" THEN Log(w1, "not a valid JSON file")
    ELSE IF body \in Falsy THEN w1
    ELSE finishInitialisation([w1 EXCEPT !.sdk.initMessage.content = body])

\* The watchdog callback.
watchdog(w) ==
    LET w1 == [w EXCEPT !.sdk.timers = @ - 1] IN
    IF ~w.sdk.sentReadyEvent THEN Log(w1, "WARNING: taking too long") ELSE w1

(***************************************************************************)
(* Actions: one per operation, handler or event.                           *)
(***************************************************************************)
Outcome(op, w, arg) ==
    [op |-> op, threw |-> w.threw, ret |-> w.ret, logged |-> w.logged,
     eventType |-> arg.eventType]

\* The effects of a handler that ran on the instance.
Commit(op, w, arg) ==
    /\ sdk' = w.sdk
    /\ sessionStorage' = w.storage
    /\ posted' = w.posted
    /\ INSTANCE_CREATED' = w.created
    /\ hist' = w.hist
    /\ last' = Outcome(op, w, arg)
    /\ UNCHANGED <<window, mode, rev, browserOk, readyState, pathname, now>>

AllOptions ==
    { Options(schema, save, fs) :
        schema \in BOOLEAN, save \in BOOLEAN, fs \in OptionalBooleans }

\* new OrdamoSDK(options).  A constructor that throws hands no instance to the
\* caller: the instance the page already holds (if any) stays the current one.
Construct(options, version) ==
    /\ rev # "B" => options.contentSchema
    /\ (mode # HOSTED \/ rev = "C") => options.fullscreen = Undefined
    /\ LET w0 == [World EXCEPT !.hist = NextInstance(hist)]
           w == IF rev = "A" THEN constructorA(w0, options, version)
                ELSE IF rev = "B" THEN constructorB(w0, options, version)
                ELSE constructorC(w0, options)
       IN IF w.threw = "none"
          THEN Commit("constructor", w, NoInit)
          ELSE Commit("constructor", [w EXCEPT !.sdk = sdk, !.hist = hist], NoInit)

\* The document finishes loading: rev B's readystatechange listener runs
\* _initialise again.
DocumentComplete(version) ==
    /\ readyState = "loading"
    /\ readyState' = "complete"
    /\ LET w == IF sdk.alive /\ sdk.deferred
                THEN initialise([World EXCEPT !.sdk.deferred = FALSE],
                                version, "complete")
                ELSE World
       IN /\ sdk' = w.sdk
          /\ sessionStorage' = w.storage
          /\ posted' = w.posted
          /\ hist' = w.hist
          /\ last' = Outcome("readystatechange", w, NoInit)
    /\ UNCHANGED <<window, mode, rev, browserOk, INSTANCE_CREATED, pathname, now>>

\* The page is loaded again, d milliseconds later (browser modes): module
\* state starts afresh, the session storage survives.  The clock is read only
\* by save and restore, so the time that matters passes between page loads.
Reload(rs, d) ==
    /\ HasWindow
    /\ now + d <= MaxNow
    /\ rev = "A" => rs = "complete"
    /\ now' = now + d
    /\ readyState' = rs
    /\ INSTANCE_CREATED' = FALSE
    /\ sdk' = NoInstance
    /\ posted' = <<>>
    /\ hist' = [NoHist EXCEPT !.saved = hist.saved, !.restores = hist.restores]
    /\ last' = Outcome("reload", World, NoInit)
    /\ UNCHANGED <<window, mode, rev, browserOk, sessionStorage, pathname>>

\* The acceptance entry points run on a live instance: in hosted mode once the
\* message listener is installed; in development mode (where no host sends
\* anything) by hand, once the instance has synthesized its own init message.
CanReceive ==
    /\ sdk.alive
    /\ mode = HOSTED => sdk.listener
    /\ mode = DEVELOPMENT => sdk.initMessage # NoInit

\* A message event reaches _handleParentMessage.
HandleParentMessage(message) ==
    /\ CanReceive
    /\ message.eventType # "init" => Len(hist.called) < MaxCalls
    /\ Commit("_handleParentMessage",
              handleParentMessage(World, message), message)

\* _receiveInitMessage is called with a message directly.
ReceiveInitMessage(message) ==
    /\ CanReceive
    /\ Commit("_receiveInitMessage",
              receiveInitMessage(World, message), message)

NotifyAppIsReady ==
    /\ sdk.alive
    /\ Commit("notifyAppIsReady", notifyAppIsReady(World), NoInit)

GetContent ==
    /\ sdk.alive
    /\ Commit("getContent", getContent(World), NoInit)

GetLayout ==
    /\ sdk.alive
    /\ Commit("getLayout", getLayout(World), NoInit)

GetSavedState ==
    /\ sdk.alive
    /\ Commit("getSavedState", getSavedState(World), NoInit)

GetTableLabel ==
    /\ sdk.alive
    /\ rev = "B"
    /\ Commit("getTableLabel", getTableLabel(World), NoInit)

GetRequiredWidth ==
    /\ sdk.alive
    /\ rev = "B"
    /\ Commit("getRequiredWidth", getRequiredWidth(World), NoInit)

GetRequiredHeight ==
    /\ sdk.alive
    /\ rev = "B"
    /\ Commit("getRequiredHeight", getRequiredHeight(World), NoInit)

Closes == Cardinality({i \in DOMAIN posted : posted[i].eventType = "close"})

RequestAppClose(S) ==
    /\ sdk.alive
    /\ Closes < MaxCloses
    /\ Commit("requestAppClose", requestAppClose(World, S), NoInit)

XhrComplete(status, body) ==
    /\ sdk.alive
    /\ sdk.xhr = "pending"
    /\ Commit("xhr", xhrComplete(World, status, body), NoInit)

WatchdogFires ==
    /\ sdk.alive
    /\ sdk.timers > 0
    /\ Commit("watchdog", watchdog(World), NoInit)

\* What may already sit in the slot of the first page when the process starts:
\* nothing, or something an earlier page (or an earlier SDK revision) left.
InitialItems ==
    { NoItem, EmptyText, Garbage, JsonNull, JsonNumber,
      Item("object", None, Some("s0"), Some("v1"), Some("1")) }

Init ==
    /\ window \in Windows
    /\ mode = RunningModeOf(window)
    /\ rev \in Revisions
    /\ browserOk \in (IF mode = DEVELOPMENT THEN BOOLEAN ELSE {TRUE})
    /\ readyState \in (IF rev = "B" /\ HasWindow THEN {"loading", "complete"}
                       ELSE {"complete"})
    /\ INSTANCE_CREATED = FALSE
    /\ pathname = "/a"
    /\ \E item \in (IF HasWindow THEN InitialItems ELSE {NoItem}) :
          sessionStorage = [p \in Paths |-> IF p = "/a" THEN item ELSE NoItem]
    /\ now = 0
    /\ sdk = NoInstance
    /\ posted = <<>>
    /\ hist = NoHist
    /\ last = Outcome("load", World, NoInit)

Next ==
    \/ \E options \in AllOptions, version \in MockVersions : Construct(options, version)
    \/ \E version \in MockVersions : DocumentComplete(version)
    \/ \E rs \in {"loading", "complete"}, d \in Elapsed : Reload(rs, d)
    \/ \E message \in InitMessages \cup OtherMessages : HandleParentMessage(message)
    \/ \E message \in InitMessages : ReceiveInitMessage(message)
    \/ NotifyAppIsReady
    \/ GetContent
    \/ GetLayout
    \/ GetSavedState
    \/ GetTableLabel
    \/ GetRequiredWidth
    \/ GetRequiredHeight
    \/ \E S \in Snapshots : RequestAppClose(S)
    \/ \E status \in {200, 404}, body \in {"notjson", Null} \cup FetchedContents :
          XhrComplete(status, body)
    \/ WatchdogFires

Spec == Init /\ [][Next]_vars

\* Rev C on its own: the same environment, the operations rev C has.
InitC ==
    /\ window \in Windows
    /\ mode = RunningModeOf(window)
    /\ rev = "C"
    /\ browserOk \in (IF mode = DEVELOPMENT THEN BOOLEAN ELSE {TRUE})
    /\ readyState = "complete"
    /\ INSTANCE_CREATED = FALSE
    /\ pathname = "/a"
    /\ \E item \in (IF HasWindow THEN InitialItems ELSE {NoItem}) :
          sessionStorage = [p \in Paths |-> IF p = "/a" THEN item ELSE NoItem]
    /\ now = 0
    /\ sdk = NoInstance
    /\ posted = <<>>
    /\ hist = NoHist
    /\ last = Outcome("load", World, NoInit)

NextC ==
    \/ \E options \in AllOptions, version \in MockVersions : Construct(options, version)
    \/ \E d \in Elapsed : Reload("complete", d)
    \/ \E message \in InitMessagesC \cup OtherMessages : HandleParentMessage(message)
    \/ \E message \in InitMessagesC : ReceiveInitMessage(message)
    \/ NotifyAppIsReady
    \/ GetContent
    \/ GetLayout
    \/ GetSavedState
    \/ \E S \in Snapshots : RequestAppClose(S)
    \/ \E status \in {200, 404}, body \in {"notjson", Null} \cup FetchedContents :
          XhrComplete(status, body)
    \/ WatchdogFires

SpecC == InitC /\ [][NextC]_vars

(***************************************************************************)
(* Properties.                                                             *)
(***************************************************************************)
Getters == {"getContent", "getLayout", "getSavedState", "getTableLabel",
            "getRequiredWidth", "getRequiredHeight"}
Readys == Cardinality({i \in DOMAIN posted : posted[i].eventType = "ready"})

\* The step delivers an init message to an instance that already holds one.
DuplicateInitStep ==
    /\ last'.op \in {"_handleParentMessage", "_receiveInitMessage"}
    /\ last'.eventType = "init"
    /\ sdk.initMessage # NoInit

\* The step is an operation on the instance that was current before it (no
\* construction, no page load).
SameInstanceStep == last'.op \notin {"constructor", "reload"}

\* What the content accessor hands out for a stored init message.
ContentOf(message) ==
    {<<>>, <<"schema">>, <<"schema", message.content>>}

\* C1: however many init messages reach the instance's acceptance path, the
\* stored InitMessage is the first of them (layout, table, version and session
\* id are the first message's; the content is the first message's, or, when
\* that was empty, the fetched default content), and getContent()/getLayout()
\* return values derived from it alone.
C1_FirstInitRetained ==
    hist.firstInit # NoInit =>
        /\ sdk.initMessage # NoInit
        /\ [sdk.initMessage EXCEPT !.content = Null]
             = [hist.firstInit EXCEPT !.content = Null]
        /\ sdk.initMessage.content \in
             (IF hist.firstInit.content \in Falsy
              THEN {Null} \cup FetchedContents
              ELSE {hist.firstInit.content})
        /\ getLayout(World).ret = <<hist.firstInit.layout>>
        /\ getContent(World).ret[1] \in ContentOf(sdk.initMessage)

\* C1 witness: a second init message reached the message handler of an
\* instance that held the first, and was dropped.
C1_Witness ==
    /\ last.op = "_handleParentMessage"
    /\ last.eventType = "init"
    /\ "Second init message sent, ignoring" \in last.logged
    /\ sdk.initMessage = hist.firstInit
    /\ sdk.content = <<"schema", hist.firstInit.content>>

\* C2 as stated: delivering an init message to an instance that already holds
\* one raises no exception and changes no state, in every running mode and on
\* both entry points.
C2_DuplicateInitSilentEverywhere ==
    [][DuplicateInitStep =>
          /\ last'.threw = "none"
          /\ sdk' = sdk
          /\ sessionStorage' = sessionStorage
          /\ posted' = posted]_vars

\* C2 as amended: a duplicate init message changes no state in any mode and on
\* either entry point; it raises no exception in hosted mode (either entry
\* point) and through _handleParentMessage (any mode); a direct call of
\* _receiveInitMessage outside hosted mode throws "Duplicate init message
\* received, ignoring".
C2_DuplicateInitDropped ==
    [][DuplicateInitStep =>
          /\ sdk' = sdk
          /\ sessionStorage' = sessionStorage
          /\ posted' = posted
          /\ INSTANCE_CREATED' = INSTANCE_CREATED
          /\ hist'.initCallbacks = hist.initCallbacks
          /\ hist'.fetches = hist.fetches
          /\ last'.threw =
                (IF mode # HOSTED /\ last'.op = "_receiveInitMessage"
                 THEN "Duplicate init message received, ignoring"
                 ELSE "none")]_vars

\* C2 witness: a direct call of _receiveInitMessage on an initialised instance
\* outside hosted mode ended in the exception, the instance still holding the
\* first message.
C2_Witness ==
    /\ last.op = "_receiveInitMessage"
    /\ last.threw = "Duplicate init message received, ignoring"
    /\ mode # HOSTED
    /\ sdk.initMessage = hist.firstInit

\* C3: while no init message has been accepted, every accessor (getContent,
\* getLayout, getSavedState, and rev B's getTableLabel, getRequiredWidth,
\* getRequiredHeight) throws, returns nothing, changes no SDK state and posts
\* no message.
C3_GettersThrowBeforeInit ==
    [][(last'.op \in Getters /\ sdk.initMessage = NoInit) =>
          /\ last'.threw = "The SDK has not initialised yet."
          /\ last'.ret = <<>>
          /\ sdk' = sdk
          /\ posted' = posted
          /\ sessionStorage' = sessionStorage
          /\ INSTANCE_CREATED' = INSTANCE_CREATED]_vars

\* C3 witness: an accessor was called on a live instance without an init
\* message and threw.
C3_Witness ==
    /\ last.op \in Getters
    /\ sdk.alive
    /\ sdk.initMessage = NoInit
    /\ last.threw = "The SDK has not initialised yet."

\* What the three accessors of both revisions would return now, and whether
\* one of them would throw.
GetterValues ==
    <<getContent(World).ret, getLayout(World).ret, getSavedState(World).ret>>
GettersThrow ==
    \/ getContent(World).threw # "none"
    \/ getLayout(World).threw # "none"
    \/ getSavedState(World).threw # "none"

\* C4 as stated: once an init message has been accepted, getContent(),
\* getLayout() and getSavedState() never throw and return the same values
\* after every later event or operation on the instance.
C4_GettersStableAfterInit ==
    [][(sdk.alive /\ sdk.initMessage # NoInit /\ SameInstanceStep) =>
          /\ ~GettersThrow'
          /\ GetterValues' = GetterValues]_vars

\* C5: the number of "ready" messages the instance has posted to the parent
\* is at most one, however often notifyAppIsReady() is called; outside hosted
\* mode none is posted.
C5_AtMostOneReady ==
    /\ Readys <= 1
    /\ mode # HOSTED => Readys = 0
    /\ (mode = HOSTED /\ sdk.alive) => (sdk.sentReadyEvent <=> Readys = 1)

\* C5 witness: hosted mode, notifyAppIsReady() returned from a call made after
\* the "ready" and a later "close" had been posted: a repeated call.
C5_Witness ==
    /\ mode = HOSTED
    /\ last.op = "notifyAppIsReady"
    /\ last.threw = "none"
    /\ Readys = 1
    /\ posted[Len(posted)].eventType = "close"

\* C6: notifyAppIsReady() on an instance without an init message throws,
\* posts nothing and leaves the instance (the ready-sent flag included) as it
\* was; the first legal call in hosted mode then posts exactly one "ready".
C6_EarlyNotifyThrows ==
    [][last'.op = "notifyAppIsReady" =>
          IF sdk.initMessage = NoInit
          THEN /\ last'.threw = "Illegal call to notifyAppIsReady()"
               /\ posted' = posted
               /\ sdk' = sdk
               /\ ~sdk'.sentReadyEvent
          ELSE /\ last'.threw = "none"
               /\ sdk'.sentReadyEvent
               /\ (mode = HOSTED /\ Readys = 0) =>
                      posted' = Append(posted, Msg("ready", FALSE))]_vars

\* C6 witness: notifyAppIsReady() was called on a live instance without an
\* init message and threw; no "ready" is posted and the flag is false.
C6_Witness ==
    /\ last.op = "notifyAppIsReady"
    /\ last.threw = "Illegal call to notifyAppIsReady()"
    /\ sdk.alive
    /\ ~sdk.sentReadyEvent
    /\ Readys = 0

\* The slot of the current path.
Slot == sessionStorage[getSavedStateKey]

\* The step in which the instance accepts its init message.
AcceptStep == sdk.initMessage = NoInit /\ sdk'.initMessage # NoInit

\* The step in which _restoreState runs: the constructor in rev A, the
\* acceptance of the init message in rev B.
RestoreStep ==
    /\ HasWindow
    /\ IF rev = "A" THEN last'.op = "constructor" /\ last'.threw = "none"
       ELSE AcceptStep

\* now - timestamp of a stored record (None when it cannot be computed).
Age(item) == NumMinus(Some(now), ReadNumber(item, "timestamp"))

\* C7: session round trip.  The previous instance, initialised with app
\* version v and session id s, saved snapshot S on close; the current instance
\* was constructed on the same path and initialised with the same v and s
\* less than 600 seconds after the save: getSavedState() returns S.
C7_SessionRoundTrip ==
    ( /\ sdk.alive
      /\ hist.saved # NoSave
      /\ hist.saved.hops = 1
      /\ sdk.initMessage # NoInit
      /\ sdk.initMessage.version = hist.saved.version
      /\ sdk.initMessage.sessionId = hist.saved.sessionId
      /\ now - hist.saved.at < MAX_SAVED_STATE_SECONDS * 1000 )
    => /\ getSavedState(World).threw = "none"
       /\ getSavedState(World).ret = <<hist.saved.S>>

\* C7 witness: getSavedState() was called on the instance constructed after a
\* save, 300 seconds later, under the same version and session id, and
\* returned the snapshot.
C7_Witness ==
    /\ hist.saved # NoSave
    /\ hist.saved.hops = 1
    /\ hist.saved.S \in Snapshots
    /\ sdk.initMessage # NoInit
    /\ sdk.initMessage.version = hist.saved.version
    /\ sdk.initMessage.sessionId = hist.saved.sessionId
    /\ now - hist.saved.at = 300000
    /\ last.op = "getSavedState"
    /\ last.ret = <<hist.saved.S>>

\* C8: on restore (rev B, the revision whose records carry an appVersion; rev A
\* stores and compares none), a stored record whose appVersion differs from
\* the version of the init message being accepted is not restored:
\* getSavedState() returns null and the slot of the path is removed.
C8_VersionMismatchNotRestored ==
    [][( /\ rev = "B"
         /\ AcceptStep
         /\ HasWindow
         /\ Slot.kind = "object"
         /\ ReadField(Slot, "appVersion") # sdk'.initMessage.version )
       => /\ sdk'.savedState = Null
          /\ getSavedState(World)'.ret = <<Null>>
          /\ Slot' = NoItem]_vars

\* C8 witness: the record the previous instance saved under another app
\* version was found on restore and wiped.
C8_Witness ==
    /\ "Ignoring saved state, app version has changed" \in last.logged
    /\ hist.saved.hops = 1
    /\ hist.saved.version # sdk.initMessage.version
    /\ sdk.savedState = Null
    /\ Slot = NoItem

\* C9: on restore (rev B, the revision whose records carry a sessionId; rev A
\* stores and compares none), a stored record whose sessionId differs from the
\* sessionId of the init message being accepted is not restored:
\* getSavedState() returns null and the slot of the path is removed.
C9_SessionMismatchNotRestored ==
    [][( /\ rev = "B"
         /\ AcceptStep
         /\ HasWindow
         /\ Slot.kind = "object"
         /\ ReadField(Slot, "sessionId") # sdk'.initMessage.sessionId )
       => /\ Slot' = NoItem
          /\ sdk'.savedState = Null
          /\ getSavedState(World)'.ret = <<Null>>]_vars

\* C9 witness: the record the previous instance saved under the same app
\* version but another session id was found on restore and wiped.
C9_Witness ==
    /\ "Ignoring saved state, session has changed" \in last.logged
    /\ hist.saved.hops = 1
    /\ hist.saved.version = sdk.initMessage.version
    /\ hist.saved.sessionId # sdk.initMessage.sessionId
    /\ sdk.savedState = Null
    /\ Slot = NoItem

\* C10 as stated: on restore a record is accepted only if its age is under
\* 600000 ms; a record whose age is 600000 ms or more, or cannot be computed,
\* is not restored and its slot is removed.
C10_OnlyUnder600Accepted ==
    [][( /\ RestoreStep
         /\ Slot.kind = "object"
         /\ ~NumLess(Age(Slot), Some(MAX_SAVED_STATE_SECONDS * 1000)) )
       => /\ sdk'.savedState = Null
          /\ Slot' = NoItem]_vars

\* A slot value that is not a well-formed StoredState: text that is not JSON
\* (the empty string included) or JSON that is not a record.
Malformed(item) == item.kind \in {"empty", "garbage", "jsonnull", "jsonprim"}

\* C11 as stated: when restore meets a slot value that is not a well-formed
\* StoredState, no exception escapes, the saved state is null and the slot is
\* removed.
C11_MalformedWiped ==
    [][(RestoreStep /\ Malformed(Slot)) =>
          /\ last'.threw = "none"
          /\ sdk'.savedState = Null
          /\ Slot' = NoItem]_vars


\* C12: in the hosted and development modes a construction attempted while an
\* instance exists throws the single-instance error and leaves the existing
\* instance as it was; a construction that returns sets the guard, and nothing
\* but a new page load clears it.
C12_SecondConstructionThrows ==
    [][/\ (HasWindow /\ INSTANCE_CREATED /\ last'.op = "constructor") =>
             /\ last'.threw = "Only one instance of OrdamoSDK may be created"
             /\ sdk' = sdk
             /\ INSTANCE_CREATED'
       /\ (HasWindow /\ last'.op = "constructor" /\ last'.threw = "none") =>
             INSTANCE_CREATED'
       /\ (INSTANCE_CREATED /\ last'.op # "reload") => INSTANCE_CREATED']_vars

C12_Witness ==
    /\ HasWindow
    /\ last.op = "constructor"
    /\ last.threw = "Only one instance of OrdamoSDK may be created"
    /\ sdk.alive
    /\ sdk.initMessage # NoInit


\* C13 as stated: in unit-test mode no construction throws, however many
\* instances were constructed before.
C13_UnitTestConstructionNeverThrows ==
    (mode = UNIT_TESTS /\ last.op = "constructor") => last.threw = "none"


\* The init message that is m with its list of plate spots named plateSpots
\* wherever m names it shapes: at the top of the message (where plateSpots wins
\* when both are there) and in the layout.
PlateSpotsTwin(m) ==
    [m EXCEPT !.plateSpots = IF @ # Undefined THEN @ ELSE m.shapes,
              !.shapes = Undefined,
              !.layout = IF @ = "L1s" THEN "L1" ELSE @]

\* What the expression getLayout().plateSpots gives once message m has come
\* through the message listener of the instance in world w.
PlateSpotsAfter(w, m) ==
    LET r == getLayout(handleParentMessage(w, m)) IN
    IF r.threw # "none" THEN r.threw ELSE LayoutPlateSpots(r.ret[1])

\* C14 as stated: an instance waiting for its init message gets the same
\* getLayout().plateSpots from an init message that names the list of plate
\* spots shapes as from the same message naming it plateSpots.
C14_ShapesNormalised ==
    (sdk.alive /\ sdk.initMessage = NoInit /\ mode = HOSTED) =>
        \A m \in InitMessagesC :
            PlateSpotsAfter(World, m) = PlateSpotsAfter(World, PlateSpotsTwin(m))


\* C15 as stated: in unit-test mode an init message delivered by hand to a new
\* instance is taken in without an exception; from then on getTableLabel()
\* returns its table label, and every notifyAppIsReady() call returns, the
\* first one recording the "ready" (the ready-sent flag goes up) and the later
\* ones recording nothing more.
C15_UnitTestScenario ==
    [][(rev = "B" /\ mode = UNIT_TESTS) =>
         /\ (/\ last'.op \in {"_handleParentMessage", "_receiveInitMessage"}
             /\ last'.eventType = "init"
             /\ sdk.initMessage = NoInit) =>
               /\ last'.threw = "none"
               /\ sdk'.initMessage = hist'.firstInit
         /\ (last'.op = "getTableLabel" /\ sdk.initMessage # NoInit) =>
               /\ last'.threw = "none"
               /\ last'.ret = <<hist.firstInit.table>>
         /\ (last'.op = "notifyAppIsReady" /\ sdk.initMessage # NoInit) =>
               /\ last'.threw = "none"
               /\ sdk'.sentReadyEvent
               /\ [sdk' EXCEPT !.sentReadyEvent = FALSE]
                    = [sdk EXCEPT !.sentReadyEvent = FALSE]
         /\ (sdk.sentReadyEvent /\ SameInstanceStep) => sdk'.sentReadyEvent]_vars


\* C16 as stated: requestAppClose() returns without an exception whatever the
\* handshake state of the instance, and in hosted mode it posts one "close".
C16_CloseNeverThrows ==
    [][last'.op = "requestAppClose" =>
         /\ last'.threw = "none"
         /\ mode = HOSTED => posted' = Append(posted, Msg("close", FALSE))
         /\ mode # HOSTED => posted' = posted]_vars


\* C17: when requestAppClose() returns on an instance configured with a
\* save-callback, the slot of the current path holds the record made of the
\* callback's value and the current time (with the init message's version and
\* session id in rev B) and the other slots are as before, whatever the mode
\* and whether or not an init message has been accepted; when it returns on an
\* instance without a save-callback, the storage is as before.
C17_CloseSavesIffCallback ==
    [][(last'.op = "requestAppClose" /\ last'.threw = "none") =>
         IF sdk.options.saveStateCallback
         THEN /\ \E S \in Snapshots :
                   Slot' = IF rev = "A"
                           THEN Item("object", Some(now), Some(S), None, None)
                           ELSE Item("object", Some(now), Some(S),
                                     JsonField(sdk.initMessage.version),
                                     JsonField(sdk.initMessage.sessionId))
              /\ \A p \in Paths \ {pathname} : sessionStorage'[p] = sessionStorage[p]
         ELSE sessionStorage' = sessionStorage]_vars

\* C17 witness: requestAppClose() returned on an instance that has a
\* save-callback and no init message yet, on a page loaded after the start, and
\* the slot holds the snapshot stamped with the current time.
C17_Witness ==
    /\ last.op = "requestAppClose"
    /\ last.threw = "none"
    /\ sdk.options.saveStateCallback
    /\ sdk.initMessage = NoInit
    /\ now > 0
    /\ Slot = Item("object", Some(now), Some("s1"), None, None)


\* The instance holds an init message without content and its request for the
\* default content is over: AWAITING_CONTENT with nothing left to wait for.
Stalled ==
    /\ sdk.alive
    /\ sdk.initMessage # NoInit
    /\ sdk.initMessage.content \in Falsy
    /\ sdk.xhr = "done"

\* C18: when the request for the default content ends with a status other than
\* 200 or with a body that is not JSON, the handler logs and throws nothing,
\* and the instance is left stalled: no init callback has run, no watchdog is
\* armed, one request was sent; and every later operation on a stalled instance
\* leaves it stalled with no init callback run, no watchdog armed and no
\* further request sent.
C18_FailedFetchStalls ==
    [][/\ (/\ last'.op = "xhr"
           /\ last'.logged \cap {"Failed to load", "not a valid JSON file"} # {}) =>
             /\ last'.threw = "none"
             /\ Stalled'
             /\ sdk' = [sdk EXCEPT !.xhr = "done"]
             /\ hist'.initCallbacks = 0
             /\ sdk'.timers = 0
             /\ hist'.fetches = 1
       /\ (Stalled /\ SameInstanceStep) =>
             /\ Stalled'
             /\ hist'.initCallbacks = 0
             /\ sdk'.timers = 0
             /\ hist'.fetches = 1]_vars

\* C18 witness: in hosted mode the request of an instance holding an init
\* message without content has just ended with status 404; the handler
\* returned and the instance is stalled.
C18_Witness ==
    /\ mode = HOSTED
    /\ last.op = "xhr"
    /\ "Failed to load" \in last.logged
    /\ last.threw = "none"
    /\ Stalled
    /\ hist.fetches = 1
    /\ hist.initCallbacks = 0


\* C19 as stated: a notifyAppIsReady() call made on an instance whose init
\* callback has not fired throws and posts nothing, also when the init message
\* is stored and the default content is still being fetched.
C19_NotifyBeforeCallbackThrows ==
    [][(last'.op = "notifyAppIsReady" /\ hist.initCallbacks = 0) =>
          /\ last'.threw # "none"
          /\ posted' = posted]_vars


\* The "load" messages posted since the page was loaded.
Loads == Cardinality({i \in DOMAIN posted : posted[i].eventType = "load"})

C21_HostedHandlerNeverThrows ==
    [][(mode = HOSTED /\ last'.op = "_handleParentMessage") =>
          /\ last'.threw = "none"
          /\ sdk'.alive
          /\ sdk'.listener]_vars


\* C22 as stated: when the request for the default content ends with status
\* 200 and a body that is JSON (the handler logs no failure), the handler
\* returns, the parsed body is the content of the stored init message and the
\* init callback has been called once more.
C22_FetchedContentAccepted ==
    [][(/\ last'.op = "xhr"
        /\ last'.logged \cap {"Failed to load", "not a valid JSON file"} = {}) =>
          /\ last'.threw = "none"
          /\ sdk'.initMessage.content \notin Falsy
          /\ hist'.initCallbacks = hist.initCallbacks + 1]_vars


(***************************************************************************)
(* The hosted handshake on one page load, with a host that answers "load". *)
(***************************************************************************)
\* The init messages that carry content.
ContentInitMessages == { m \in InitMessages : m.content \notin Falsy }

\* The host answers the "load" announcement with its one init message.
HostAnswers ==
    /\ mode = HOSTED
    /\ Loads = 1
    /\ hist.firstInit = NoInit
    /\ \E message \in ContentInitMessages : HandleParentMessage(message)

InitHosted == Init /\ mode = HOSTED

NextHosted ==
    \/ \E options \in AllOptions, version \in MockVersions : Construct(options, version)
    \/ \E version \in MockVersions : DocumentComplete(version)
    \/ HostAnswers
    \/ \E message \in OtherMessages : HandleParentMessage(message)
    \/ NotifyAppIsReady
    \/ GetContent
    \/ \E S \in Snapshots : RequestAppClose(S)
    \/ WatchdogFires

\* The browser delivers a posted message: the listener's task is eventually run.
SpecHosted == InitHosted /\ [][NextHosted]_vars /\ WF_vars(HostAnswers)

\* The instance has announced itself and holds no init message; the step is
\* neither the host's init message nor a new construction.
AwaitingInitStep ==
    /\ mode = HOSTED
    /\ Loads = 1
    /\ sdk.initMessage = NoInit
    /\ last'.eventType # "init"
    /\ SameInstanceStep

\* Nothing moves without the init message: no init message stored, no init
\* callback, no request, no watchdog, and nothing posted but the "close" of a
\* requestAppClose() call of the app.
StaysAwaitingInit ==
    /\ sdk'.initMessage = NoInit
    /\ hist'.initCallbacks = 0
    /\ sdk'.xhr = "none"
    /\ sdk'.timers = 0
    /\ posted' = IF last'.op = "requestAppClose"
                 THEN Append(posted, Msg("close", FALSE)) ELSE posted

C24_OneWatchdogPerReady ==
    [][SameInstanceStep =>
         /\ hist'.initCallbacks = hist.initCallbacks + 1
              => sdk'.timers = sdk.timers + 1
         /\ (hist'.initCallbacks = hist.initCallbacks /\ last'.op # "watchdog")
              => sdk'.timers = sdk.timers
         /\ last'.op = "watchdog" =>
              /\ last'.threw = "none"
              /\ ("WARNING: taking too long" \in last'.logged) <=> ~sdk.sentReadyEvent
              /\ sdk' = [sdk EXCEPT !.timers = @ - 1]
              /\ posted' = posted
              /\ sessionStorage' = sessionStorage]_vars


C26_UnitTestConstructionInert ==
    [][mode = UNIT_TESTS =>
         /\ last'.op = "constructor" =>
              /\ last'.threw = "none"
              /\ sdk'.alive
              /\ ~sdk'.listener
              /\ ~sdk'.deferred
              /\ sdk'.xhr = "none"
              /\ sdk'.timers = 0
              /\ sdk'.initMessage = NoInit
              /\ hist'.fetches = 0
              /\ hist'.initCallbacks = 0
              /\ posted' = posted
              /\ sessionStorage' = sessionStorage
         /\ (sdk.initMessage = NoInit /\ last'.eventType # "init") =>
              sdk'.initMessage = NoInit]_vars


\* No init message, no request, no init callback.
NothingInitialised ==
    /\ sdk.initMessage = NoInit
    /\ sdk.xhr = "none"
    /\ hist.fetches = 0
    /\ hist.initCallbacks = 0

EventOptions ==
    { [Options(TRUE, FALSE, Undefined) EXCEPT !.onNavigate = n, !.onInteractions = i] :
        n \in {Undefined, "f"}, i \in {Undefined, "f"} }

\* sdk.onNavigate = callback: in rev B the callback is a public property of
\* the instance, which the app may assign (or clear) at any time.
SetOnNavigate(callback) ==
    /\ rev = "B"
    /\ sdk.alive
    /\ sdk.options.onNavigate # callback
    /\ Commit("onNavigate=", [World EXCEPT !.sdk.options.onNavigate = callback], NoInit)

\* sdk.onInteractions = callback (rev B).
SetOnInteractions(callback) ==
    /\ rev = "B"
    /\ sdk.alive
    /\ sdk.options.onInteractions # callback
    /\ Commit("onInteractions=",
              [World EXCEPT !.sdk.options.onInteractions = callback], NoInit)

InitEvents == Init /\ mode = HOSTED

NextEvents ==
    \/ \E options \in EventOptions, version \in MockVersions : Construct(options, version)
    \/ \E version \in MockVersions : DocumentComplete(version)
    \/ \E message \in InitMessages \cup EventMessages \cup UnknownMessages :
          HandleParentMessage(message)
    \/ \E callback \in Callbacks \cup {Undefined} : SetOnNavigate(callback)
    \/ \E callback \in Callbacks \cup {Undefined} : SetOnInteractions(callback)
    \/ \E status \in {200, 404}, body \in FetchedContents : XhrComplete(status, body)
    \/ NotifyAppIsReady

SpecEvents == InitEvents /\ [][NextEvents]_vars

\* The callback registered for event messages of type t.
Registered(t) ==
    IF t = "navigate" THEN sdk.options.onNavigate ELSE sdk.options.onInteractions

\* C28: the handler, given a "navigate" or "interactions" message, returns
\* having called the callback registered for that type at that moment exactly
\* once, after the calls made for earlier messages, whether or not the
\* instance holds an init message; with no callback registered it calls
\* nothing; either way it changes nothing else.
C28_EventCallbacks ==
    [][(last'.op = "_handleParentMessage" /\ last'.eventType \in {"navigate", "interactions"})
       =>   /\ last'.threw = "none"
            /\ hist'.called =
                 IF Registered(last'.eventType) \in Falsy THEN hist.called
                 ELSE Append(hist.called, [callback |-> Registered(last'.eventType),
                                           eventType |-> last'.eventType])
            /\ sdk' = sdk
            /\ posted' = posted
            /\ sessionStorage' = sessionStorage]_vars

\* C28 witness: two "navigate" messages came in before any init message; the
\* first was handed to callback f, the second to callback g, registered in
\* between.
C28_Witness ==
    /\ sdk.alive
    /\ sdk.initMessage = NoInit
    /\ hist.called = << [callback |-> "f", eventType |-> "navigate"],
                        [callback |-> "g", eventType |-> "navigate"] >>


\* The instance has reached READY: its init callback has been called.
Ready == sdk.alive /\ hist.initCallbacks >= 1

\* C29: once the init callback of the instance has been called, no step on
\* that instance (further init, navigate or other messages, notifyAppIsReady,
\* requestAppClose, the getters, the watchdog, a request completing) changes
\* the stored init message or the content.
C29_InitMessageFrozenAfterReady ==
    [][(Ready /\ SameInstanceStep) =>
          /\ sdk'.initMessage = sdk.initMessage
          /\ sdk'.content = sdk.content]_vars

\* C29 witness: a ready instance was handed another init message and dropped
\* it.
C29_Witness ==
    /\ Ready
    /\ hist.initCallbacks = 1
    /\ last.op = "_handleParentMessage"
    /\ last.eventType = "init"
    /\ "Second init message sent, ignoring" \in last.logged


(***************************************************************************)
(* Pages at several paths sharing one session storage.                     *)
(***************************************************************************)
\* The page at path p is loaded, d milliseconds later: module state starts
\* afresh, document.location.pathname is p, the session storage survives.
Navigate(p, d) ==
    /\ HasWindow
    /\ now + d <= MaxNow
    /\ now' = now + d
    /\ pathname' = p
    /\ readyState' = "complete"
    /\ INSTANCE_CREATED' = FALSE
    /\ sdk' = NoInstance
    /\ posted' = <<>>
    /\ hist' = [NoHist EXCEPT !.saved = hist.saved, !.restores = hist.restores]
    /\ last' = Outcome("reload", World, NoInit)
    /\ UNCHANGED <<window, mode, rev, browserOk, sessionStorage>>

\* What the save-callback of an app may return.
PathSnapshots == {"s1", "s2"}

InitPaths ==
    /\ window \in Windows \ {"undefined"}
    /\ mode = RunningModeOf(window)
    /\ rev \in Revisions
    /\ browserOk = TRUE
    /\ readyState = "complete"
    /\ INSTANCE_CREATED = FALSE
    /\ pathname \in Paths
    /\ sessionStorage \in [Paths -> {NoItem, Garbage}]
    /\ now = 0
    /\ sdk = NoInstance
    /\ posted = <<>>
    /\ hist = NoHist
    /\ last = Outcome("load", World, NoInit)

NextPaths ==
    \/ \E save \in BOOLEAN, version \in MockVersions :
          Construct(Options(TRUE, save, Undefined), version)
    \/ \E p \in Paths, d \in Elapsed : Navigate(p, d)
    \/ \E message \in InitMessages : HandleParentMessage(message)
    \/ XhrComplete(200, "d1")
    \/ \E S \in PathSnapshots : RequestAppClose(S)

SpecPaths == InitPaths /\ [][NextPaths]_vars

\* The record a save made at time t of snapshot S writes, given the init
\* message the instance holds.
SavedRecord(t, S, initMessage) ==
    IF rev = "A" THEN Item("object", Some(t), Some(S), None, None)
    ELSE Item("object", Some(t), Some(S),
              JsonField(initMessage.version), JsonField(initMessage.sessionId))

\* C30: every step leaves the slot of every path other than the current one
\* as it was.  A requestAppClose() that saves leaves in the slot of the current
\* path exactly the record made of the callback's value, the current time and
\* (rev B) the version and session id of the init message, whatever the slot
\* held before; every other step (construction and acceptance, which restore
\* or clear, among them) leaves the slot of the current path as it was or
\* empty.
C30_SlotsIndependent ==
    [][/\ \A p \in Paths \ {pathname} : sessionStorage'[p] = sessionStorage[p]
       /\ IF last'.op = "requestAppClose" /\ last'.threw = "none"
             /\ sdk.options.saveStateCallback
          THEN \E S \in PathSnapshots :
                  sessionStorage'[pathname] = SavedRecord(now, S, sdk.initMessage)
          ELSE sessionStorage'[pathname] \in {Slot, NoItem}]_vars

\* C30 witness: requestAppClose() saved snapshot s2 at /b on top of the record
\* an earlier page at /b had saved, while the slot of /a holds the record
\* saved there in between.
C30_Witness ==
    /\ pathname = "/b"
    /\ last.op = "requestAppClose"
    /\ last.threw = "none"
    /\ now = 900000
    /\ sessionStorage["/b"].kind = "object"
    /\ sessionStorage["/b"].state = Some("s2")
    /\ sessionStorage["/b"].timestamp = Some(900000)
    /\ sessionStorage["/a"].kind = "object"
    /\ sessionStorage["/a"].state = Some("s1")
    /\ sessionStorage["/a"].timestamp = Some(600000)


(***************************************************************************)
(* The running mode.                                                       *)
(***************************************************************************)
\* getRunningMode(): the module-level function returns RUNNING_MODE.
getRunningMode(w) == Return(w, mode)

GetRunningMode ==
    /\ Commit("getRunningMode", getRunningMode(World), NoInit)

NextMode ==
    \/ \E options \in AllOptions, version \in MockVersions : Construct(options, version)
    \/ \E version \in MockVersions : DocumentComplete(version)
    \/ \E message \in InitMessages \cup OtherMessages : HandleParentMessage(message)
    \/ NotifyAppIsReady
    \/ \E S \in Snapshots : RequestAppClose(S)
    \/ XhrComplete(200, "d1")
    \/ GetRunningMode

SpecMode == Init /\ [][NextMode]_vars

\* C31: RUNNING_MODE is UNIT_TESTS without a window, DEVELOPMENT in a window
\* that is its own top frame and HOSTED in a framed window; no step changes
\* it, and every getRunningMode() call returns it.
C31_RunningModeFixed ==
    /\ [](mode = (CASE window = "undefined" -> UNIT_TESTS
                    [] window = "top" -> DEVELOPMENT
                    [] OTHER -> HOSTED))
    /\ [][/\ mode' = mode
          /\ last'.op = "getRunningMode" =>
                (last'.threw = "none" /\ last'.ret = <<mode>>)]_vars

\* C31 witness: getRunningMode() returned HOSTED after the instance had been
\* initialised, had sent "ready" and had posted "close".
C31_Witness ==
    /\ last.op = "getRunningMode"
    /\ last.ret = <<HOSTED>>
    /\ window = "framed"
    /\ sdk.sentReadyEvent
    /\ Closes = 1


(***************************************************************************)
(* Pages loaded in quick succession on one path.                           *)
(***************************************************************************)
\* The time between two page loads, short enough for two loads to fit under
\* the age ceiling of a stored record.
ShortElapsed == {200000}

InitRestore == Init /\ HasWindow /\ readyState = "complete"

NextRestore ==
    \/ \E save \in BOOLEAN, version \in MockVersions :
          Construct(Options(TRUE, save, Undefined), version)
    \/ \E d \in ShortElapsed : Reload("complete", d)
    \/ \E message \in InitMessages : HandleParentMessage(message)
    \/ XhrComplete(200, "d1")
    \/ GetSavedState
    \/ \E S \in Snapshots : RequestAppClose(S)

SpecRestore == InitRestore /\ [][NextRestore]_vars

\* The record in the slot of the current path is one the restore of the step
\* accepts: written by a save less than 600 seconds ago and, in rev B, under
\* the version and session id of the init message being accepted.
Acceptable ==
    /\ Slot.kind = "object"
    /\ Slot.timestamp # None
    /\ now - Slot.timestamp[1] < MAX_SAVED_STATE_SECONDS * 1000
    /\ rev = "B" => /\ ReadField(Slot, "appVersion") = sdk'.initMessage.version
                    /\ ReadField(Slot, "sessionId") = sdk'.initMessage.sessionId

\* C32: the step in which the restore runs on an acceptable record hands the
\* record's snapshot to the instance and leaves the whole storage as it was,
\* so the record is there, as acceptable as before, for the next instance
\* constructed on the path.
C32_AcceptedRecordStays ==
    [][(RestoreStep /\ Acceptable) =>
          /\ sdk'.savedState = ReadField(Slot, "state")
          /\ sessionStorage' = sessionStorage
          /\ hist'.restores = hist.restores + 1]_vars

\* C32 witness: the record saved at time 0 was restored by the instance of the
\* next page and again, 400 seconds after the save, by the instance of the page
\* after that, and is still in the slot.
C32_Witness ==
    /\ hist.restores = 2
    /\ now = 400000
    /\ Slot.kind = "object"
    /\ Slot.timestamp = Some(0)
    /\ Slot.state = Some("s1")
    /\ sdk.savedState = "s1"
    /\ last.op = "getSavedState"
    /\ last.ret = <<"s1">>


(***************************************************************************)
(* Restore and the init callback, in the three revisions.                  *)
(***************************************************************************)
InitCallback ==
    /\ window \in Windows \ {"undefined"}
    /\ mode = RunningModeOf(window)
    /\ rev \in {"A", "B", "C"}
    /\ browserOk = TRUE
    /\ readyState \in (IF rev = "B" THEN {"loading", "complete"} ELSE {"complete"})
    /\ INSTANCE_CREATED = FALSE
    /\ pathname = "/a"
    /\ \E item \in InitialItems :
          sessionStorage = [p \in Paths |-> IF p = "/a" THEN item ELSE NoItem]
    /\ now = 0
    /\ sdk = NoInstance
    /\ posted = <<>>
    /\ hist = NoHist
    /\ last = Outcome("load", World, NoInit)

NextCallback ==
    \/ \E save \in BOOLEAN, version \in MockVersions :
          Construct(Options(TRUE, save, Undefined), version)
    \/ \E version \in MockVersions : DocumentComplete(version)
    \/ \E d \in Elapsed : Reload("complete", d)
    \/ \E message \in InitMessages \cup InitMessagesC :
          /\ message \in InitMessagesC <=> rev = "C"
          /\ HandleParentMessage(message)
    \/ \E message \in InitMessages \cup InitMessagesC :
          /\ message \in InitMessagesC <=> rev = "C"
          /\ ReceiveInitMessage(message)
    \/ \E body \in FetchedContents : XhrComplete(200, body)
    \/ GetSavedState
    \/ \E S \in Snapshots : RequestAppClose(S)

SpecCallback == InitCallback /\ [][NextCallback]_vars

\* C33: in hosted and development mode, as the init callback of an instance
\* starts, _restoreState has been called on the instance exactly once and
\* getSavedState() returns (without throwing) what the instance holds as its
\* saved state from then on; the restore does not run again afterwards.
C33_RestoredBeforeCallback ==
    (HasWindow /\ sdk.alive) =>
        /\ hist.initCallbacks = Len(hist.atCallback)
        /\ \A i \in DOMAIN hist.atCallback :
              /\ hist.atCallback[i].restoreRuns = 1
              /\ hist.atCallback[i].savedState = sdk.savedState
              /\ hist.restoreRuns = 1

\* C33 witness: the init callback of an instance started with the restore done
\* and getSavedState() returning the snapshot the page before had saved.
C33_Witness ==
    /\ sdk.alive
    /\ hist.atCallback = << [restoreRuns |-> 1, savedState |-> "s1"] >>
    /\ hist.saved.S = "s1"
    /\ hist.saved.hops = 1


\* C34: the init callback of an instance has been called at most once, and
\* when it was called the instance already held its init message (so that
\* getSavedState() inside the callback does not throw) and holds it still.
C34_InitCallbackAtMostOnce ==
    sdk.alive =>
        /\ hist.initCallbacks <= 1
        /\ Len(hist.atCallback) = hist.initCallbacks
        /\ hist.initCallbacks = 1 =>
              /\ hist.atCallback[1].savedState # "throws"
              /\ sdk.initMessage # NoInit

\* C34 witness: the init callback has been called once, when the default
\* content arrived, and another init message has been handed to the instance
\* since.
C34_Witness ==
    /\ sdk.alive
    /\ hist.initCallbacks = 1
    /\ sdk.xhr = "done"
    /\ last.eventType = "init"
    /\ hist.firstInit # NoInit
    /\ hist.firstInit.content \in Falsy
    /\ sdk.initMessage.content = "d1"


\* C35 as stated: in hosted mode the first message an instance has posted is
\* its "load" (so every "ready" and every "close" comes after it), and a
\* "ready" has been posted only by an instance that was handed an init
\* message.
C35_LoadPostedFirst ==
    (mode = HOSTED /\ sdk.alive) =>
        /\ posted # <<>> => posted[1].eventType = "load"
        /\ Readys >= 1 => (hist.firstInit # NoInit /\ sdk.initMessage # NoInit)

\* The last thing that happened to the instance: an init message came in
\* while the request for the default content was pending, and was dropped.
DroppedWhilePending ==
    /\ mode = HOSTED
    /\ sdk.alive
    /\ sdk.xhr = "pending"
    /\ last.op = "_handleParentMessage"
    /\ last.eventType = "init"
    /\ "Second init message sent, ignoring" \in last.logged

\* C36 as stated: in hosted mode an init message that comes in while the
\* request for the default content is pending changes nothing; and when the
\* request then ends with status 200 and a JSON body, the handler returns, the
\* init callback has been called, and the stored init message is the first
\* one with the fetched body as its content.
C36_InitWhilePendingDropped ==
    [][/\ ( /\ mode = HOSTED
            /\ sdk.xhr = "pending"
            /\ last'.op = "_handleParentMessage"
            /\ last'.eventType = "init" )
          => /\ last'.threw = "none"
             /\ sdk' = sdk
             /\ posted' = posted
             /\ hist'.initCallbacks = hist.initCallbacks
       /\ ( /\ DroppedWhilePending
            /\ last'.op = "xhr"
            /\ last'.logged \cap {"Failed to load", "not a valid JSON file"} = {} )
          => /\ last'.threw = "none"
             /\ hist'.initCallbacks = 1
             /\ sdk'.initMessage.content \in FetchedContents
             /\ sdk'.initMessage =
                  [hist.firstInit EXCEPT !.content = sdk'.initMessage.content]]_vars

\* C37: outside hosted mode nothing has been posted to the parent, whatever
\* was constructed or called; and a notifyAppIsReady() call that returns
\* leaves the ready-sent flag set all the same.
C37_NothingPostedOutsideHosted ==
    /\ [](mode # HOSTED => posted = <<>>)
    /\ [][(mode # HOSTED /\ last'.op = "notifyAppIsReady" /\ last'.threw = "none")
             => sdk'.sentReadyEvent]_vars

\* C37 witness: in development mode the instance was initialised,
\* notifyAppIsReady() set the flag and requestAppClose() returned, and nothing
\* has been posted.
C37_Witness ==
    /\ mode = DEVELOPMENT
    /\ sdk.alive
    /\ sdk.initMessage # NoInit
    /\ sdk.sentReadyEvent
    /\ last.op = "requestAppClose"
    /\ last.threw = "none"
    /\ posted = <<>>


\* C38: the handler, given a message whose type is not "init" (navigate,
\* interactions, or a type it does not know), returns with the stored init
\* message, the content, the ready-sent flag, the saved state and the session
\* storage as they were and with nothing posted to the parent.
C38_OtherMessagesChangeNothing ==
    [][(last'.op = "_handleParentMessage" /\ last'.eventType # "init") =>
          /\ last'.threw = "none"
          /\ sdk'.initMessage = sdk.initMessage
          /\ sdk'.content = sdk.content
          /\ sdk'.sentReadyEvent = sdk.sentReadyEvent
          /\ sdk'.savedState = sdk.savedState
          /\ \A p \in Paths : sessionStorage'[p] = sessionStorage[p]
          /\ Len(posted') = Len(posted)]_vars

\* C38 witness: a message of an unknown type was handed to a ready instance
\* that had posted "ready", after a "navigate" message had been handed to a
\* callback.
C38_Witness ==
    /\ last.op = "_handleParentMessage"
    /\ last.eventType = "unknown"
    /\ Ready
    /\ sdk.sentReadyEvent
    /\ Len(hist.called) = 1
    /\ hist.called[1].eventType = "navigate"


\* C39 as stated: a construction that throws, because an instance exists
\* already or because the development-mode platform check fails, leaves the
\* instance guard, the session storage and the messages posted to the parent
\* as they were.
C39_FailedConstructionChangesNothing ==
    [][(/\ last'.op = "constructor"
        /\ last'.threw \in {"Bad browser",
                            "Only one instance of OrdamoSDK may be created"}) =>
          /\ INSTANCE_CREATED' = INSTANCE_CREATED
          /\ sessionStorage' = sessionStorage
          /\ posted' = posted]_vars
====
